---- MODULE Spec2Model ----
(***************************************************************************)
(* Model of the task-and-session orchestration engine of XTClaudeFeiShu:  *)
(* the TaskQueue (src/bridge/TaskQueue.ts), the SessionManager             *)
(* (src/bridge/SessionManager.ts), the CommandHandler and the             *)
(* MessageBridge (src/bridge/MessageBridge.ts) of one bot.                 *)
(*                                                                         *)
(* One bot is modelled, so a workspace key "botId:projectId" is a project  *)
(* id and a session key "botId:userId" is a user id.                       *)
(***************************************************************************)
EXTENDS Integers, Sequences, FiniteSets, TLC

(***************************************************************************)
(* Bounds of the model.                                                    *)
(***************************************************************************)
\* number of task ids the TaskQueue hands out in the queue-level specification
MaxTasks == 3
\* number of non-command messages the bridge receives when one user sends
\* nothing but tasks for one project (specification SpecOneKey)
MaxMsgs == 4
\* number of non-command messages the bridge receives when every user sends
\* tasks, replies and commands (specification Spec)
MaxCmdMsgs == 2
\* number of messages the bridge receives from a user whose state is waiting
MaxReplies == 1
\* number of non-command messages the bridge receives from a user who sends
\* a message only when no task is executing (specification SpecSeq)
MaxSeqMsgs == 3
\* number of tasks, of calls of updateCard and the last value of the clock
\* in specification SpecCard
MaxCardMsgs == 1
MaxUpdates == 3
MaxClock == 3000
\* number of calls of enqueue on the AsyncQueue
MaxItems == 4
\* number of calls of finish on the AsyncQueue
MaxFinishes == 2
\* number of execution handles the calls of the SessionManager store
\* (specifications SpecSM and SpecSweep)
MaxHandles == 2
\* the last minute of the clock (specifications SpecSM and SpecSweep)
MaxTime == 32
MaxRetentionTime == 11
MaxToolCalls == 3
MaxToolMsgs == 2
MaxProgressMsgs == 3

(***************************************************************************)
(* Program constants.                                                      *)
(***************************************************************************)
\* TaskQueue.complete: const completedThreshold = 5 * 60 * 1000 (5 minutes)
completedThreshold == 5
\* MessageBridge.executeTask: expiresAt: Date.now() + 30 * 60 * 1000 (30 minutes)
executionTimeout == 30
\* MessageBridge.handleUserInputRequest: expiresAt: Date.now() + 5 * 60 * 1000
inputTimeout == 5

Projects == {"p1", "p2"}
Users == {"u1", "u2"}
\* bot.currentProjectId: the project of a user who has selected none
currentProjectId == "p1"
\* the conversation ids (session_id) a result message of the agent can carry
ConvIds == {"c1", "c2"}
\* the result_type of a result message
ResultTypes ==
  {"success", "error_during_execution", "error_max_turns", "error_max_budget_usd"}
\* the result types of a conversation that ended with an error outcome
ErrorResultTypes == ResultTypes \ {"success"}
\* the input_type of a user_input_required message
InputTypes == {"confirmation", "choice", "text"}

\* the value of an unset optional field (task.completedAt, runningTasks.get(key))
NoTask == 0
NoTime == -1
\* session.state.executionHandle is undefined
NoHandle == 0

\* minUpdateInterval of MessageBridge.updateCard, in milliseconds
minUpdateInterval == 1000
\* the milliseconds the clock of the card updates advances by in one step
ClockSteps == {500}
\* MessageBridge.pendingUpdate is null
NoTimer == NoTime

\* the minutes the clock advances by between two calls
TickSteps == {16}
RetentionSteps == {completedThreshold, completedThreshold + 1}
ToolNames == {"Read", "Bash"}

\* the users who send messages in the specifications below
QueueUsers == {"u1"}

VARIABLES
  queues,        \* TaskQueue.queues: key -> list of QueuedTask
  runningTasks,  \* TaskQueue.runningTasks: key -> id of the running task, or NoTask
  nextId,        \* the next fresh task id (ids are unique, in enqueue order)
  now,           \* Date.now(), in minutes
  ret,           \* the last TaskQueue call and what it returned
  sessions,      \* SessionManager.sessions: user -> Session (with its state)
  userProjectSelections, \* SessionManager.userProjectSelections ("" if unset)
  execs,         \* the calls of MessageBridge.executeTask
  finalCards,    \* task id -> number of final result cards the channel was sent
  errorCards,    \* task id -> number of error cards the channel was sent
  notices,       \* ids of the tasks whose user was sent a queue-position notice
  replies,       \* number of messages handled by CommandHandler.sendUserResponse
  everRunning,   \* ids of the tasks that have had status running
  inputQueue,    \* an AsyncQueue: its fields queue, resolve (set or null), finished
  consumer,      \* the one for-await consumer of inputQueue and what it received
  producer,      \* the enqueue and finish calls so far, the items enqueued before finish()
  resetAt,       \* user -> the id the next task got when the user's last /reset
                 \* arrived (NoTask if none did), kept by specification SpecReset
  clock,         \* Date.now() in milliseconds, for the throttle of the card updates
  card           \* MessageBridge.lastUpdateTime, pendingUpdate, pendingCardContent,
                 \* and the progress updates sent to the channel

tqVars == <<queues, runningTasks, nextId>>
bridgeVars == <<sessions, userProjectSelections, execs, finalCards, errorCards,
                notices, replies, everRunning>>
aqVars == <<inputQueue, consumer, producer>>
vars == <<queues, runningTasks, nextId, now, ret, sessions, userProjectSelections,
          execs, finalCards, errorCards, notices, replies, everRunning,
          inputQueue, consumer, producer, resetAt, clock, card>>

(***************************************************************************)
(* TaskQueue: pure operators on one key's list.                            *)
(***************************************************************************)

\* a QueuedTask as enqueue creates it (position: queue.length)
NewTask(id, userId, q) ==
  [id |-> id, userId |-> userId, status |-> "waiting", position |-> Len(q),
   completedAt |-> NoTime, error |-> ""]

\* the number of waiting tasks among the first n tasks of q
RECURSIVE WaitingBefore(_, _)
WaitingBefore(q, n) ==
  IF n = 0 THEN 0
  ELSE WaitingBefore(q, n - 1) + (IF q[n].status = "waiting" THEN 1 ELSE 0)

\* TaskQueue.updatePositions: renumber the waiting tasks 0,1,... in list order
updatePositions(q) ==
  [i \in 1..Len(q) |->
     IF q[i].status = "waiting"
       THEN [q[i] EXCEPT !.position = WaitingBefore(q, i - 1)]
       ELSE q[i]]

\* queue.findIndex(t => t.status === 'waiting'): the first such index, 0 if none
IndexOfWaiting(q) ==
  IF \E i \in 1..Len(q) : q[i].status = "waiting"
    THEN CHOOSE i \in 1..Len(q) :
           q[i].status = "waiting" /\ \A j \in 1..(i - 1) : q[j].status # "waiting"
    ELSE 0

\* queue.findIndex(t => t.id === taskId): the first such index, 0 if none
IndexOfId(q, id) ==
  IF \E i \in 1..Len(q) : q[i].id = id
    THEN CHOOSE i \in 1..Len(q) : q[i].id = id /\ \A j \in 1..(i - 1) : q[j].id # id
    ELSE 0

\* queue.splice(i, 1)
Splice(q, i) == [j \in 1..(Len(q) - 1) |-> IF j < i THEN q[j] ELSE q[j + 1]]

\* TaskQueue.enqueue on the list of the key
enqueue(q, id, userId) == updatePositions(Append(q, NewTask(id, userId, q)))

\* TaskQueue.getNext: the index of the task getNext returns (0: null)
getNextIndex(q) == IndexOfWaiting(q)

\* TaskQueue.getNext on the list of the key: the first waiting task runs
getNext(q) ==
  LET i == getNextIndex(q)
  IN IF i = 0 THEN q ELSE [q EXCEPT ![i].status = "running"]

\* a prune that also removes the terminal task whose age equals the window
RetainedBelowWindow(t, time) ==
  /\ ~(/\ t.status \in {"completed", "failed"}
       /\ t.completedAt # NoTime
       /\ time - t.completedAt >= completedThreshold)
  /\ t.status # "cancelled"

\* the prune loop of TaskQueue.complete keeps this task
Retained(t, time) ==
  /\ ~(/\ t.status \in {"completed", "failed"}
       /\ t.completedAt # NoTime
       /\ time - t.completedAt > completedThreshold)
  /\ t.status # "cancelled"

\* TaskQueue.complete on the list that holds the task
complete(q, id, time) ==
  LET i == IndexOfId(q, id)
      q1 == [q EXCEPT ![i].status = "completed", ![i].completedAt = time]
      q2 == SelectSeq(q1, LAMBDA t : Retained(t, time))
  IN updatePositions(q2)

\* TaskQueue.fail on the list that holds the task
fail(q, id, error, time) ==
  LET i == IndexOfId(q, id)
  IN updatePositions([q EXCEPT ![i].status = "failed", ![i].completedAt = time,
                                ![i].error = error])

\* TaskQueue.cancel: what it returns for the list that holds the task
cancelResult(q, id) ==
  LET i == IndexOfId(q, id)
  IN i # 0 /\ q[i].status = "waiting"

\* cancel without the status check: it removes a task whatever its status
cancelAnyStatus(q, id) ==
  LET i == IndexOfId(q, id)
  IN IF i # 0 THEN updatePositions(Splice(q, i)) ELSE q

\* TaskQueue.cancel on the list that holds the task
cancel(q, id) ==
  LET i == IndexOfId(q, id)
  IN IF cancelResult(q, id) THEN updatePositions(Splice(q, i)) ELSE q

\* the key whose list holds the task id ("" if none): the for-loop over queues.entries()
KeyOf(qs, id) ==
  IF \E k \in Projects : \E i \in 1..Len(qs[k]) : qs[k][i].id = id
    THEN CHOOSE k \in Projects : \E i \in 1..Len(qs[k]) : qs[k][i].id = id
    ELSE ""

\* TaskQueue.isRunning
isRunning(rt, k) == rt[k] # NoTask

\* TaskQueue.getTask: the task of this id, in the list of key k
TaskAt(qs, k, id) == qs[k][IndexOfId(qs[k], id)]

(***************************************************************************)
(* TaskQueue calls on the whole queue state, as the bridge makes them.     *)
(***************************************************************************)
\* TaskQueue.complete(taskId): the lists afterwards
queuesAfterComplete(qs, id, time) ==
  LET k == KeyOf(qs, id)
  IN IF k = "" THEN qs ELSE [qs EXCEPT ![k] = complete(qs[k], id, time)]

\* TaskQueue.fail(taskId, error): the lists afterwards
queuesAfterFail(qs, id, error, time) ==
  LET k == KeyOf(qs, id)
  IN IF k = "" THEN qs ELSE [qs EXCEPT ![k] = fail(qs[k], id, error, time)]

\* this.runningTasks.delete(key) of complete and fail: the markers afterwards
markersAfterEnd(rt, qs, id) ==
  LET k == KeyOf(qs, id)
  IN IF k = "" THEN rt ELSE [rt EXCEPT ![k] = NoTask]

(***************************************************************************)
(* SessionManager.                                                         *)
(***************************************************************************)
\* session.state is undefined
NoState ==
  [status |-> "none", currentTaskId |-> NoTask, executionHandle |-> NoHandle,
   inputRequest |-> "none", expiresAt |-> 0]

\* the state setStatus and setState create when the session has none
IdleState ==
  [status |-> "idle", currentTaskId |-> NoTask, executionHandle |-> NoHandle,
   inputRequest |-> "none", expiresAt |-> 0]

\* an empty Map
EmptyMap == [x \in {} |-> 0]

\* Map.set
MapSet(m, key, v) == [x \in DOMAIN m \cup {key} |-> IF x = key THEN v ELSE m[x]]

\* Map.delete
MapDelete(m, key) == [x \in DOMAIN m \ {key} |-> m[x]]

\* Object.assign(state, partial)
Assign(st, partial) ==
  [f \in DOMAIN st |-> IF f \in DOMAIN partial THEN partial[f] ELSE st[f]]

\* SessionManager.getUserProject
getUserProject(sel, u) == IF sel[u] # "" THEN sel[u] ELSE currentProjectId

\* SessionManager.getOrCreateSession
getOrCreateSessionKeepsWorkspace(ss, u, projectId, claudeSessionId, time) ==
  IF u \notin DOMAIN ss
    THEN MapSet(ss, u, [projectId |-> projectId, claudeSessionId |-> claudeSessionId,
                        lastActiveAt |-> time, state |-> NoState])
    ELSE [ss EXCEPT ![u].lastActiveAt = time]
getOrCreateSession(ss, u, projectId, claudeSessionId, time) ==
  IF u \notin DOMAIN ss \/ ss[u].projectId # projectId
    THEN MapSet(ss, u, [projectId |-> projectId, claudeSessionId |-> claudeSessionId,
                        lastActiveAt |-> time, state |-> NoState])
    ELSE [ss EXCEPT ![u].lastActiveAt = time]

\* SessionManager.deleteSession
deleteSession(ss, u) == MapDelete(ss, u)

\* SessionManager.getState
getState(ss, u) == IF u \in DOMAIN ss THEN ss[u].state ELSE NoState

\* the lazy initialisation of setStatus and setState
LazyState(st) == IF st.status = "none" THEN IdleState ELSE st

\* SessionManager.setStatus
setStatus(ss, u, status) ==
  IF u \in DOMAIN ss
    THEN [ss EXCEPT ![u].state = [LazyState(@) EXCEPT !.status = status]]
    ELSE ss

\* SessionManager.setState
setState(ss, u, partial) ==
  IF u \in DOMAIN ss
    THEN [ss EXCEPT ![u].state = Assign(LazyState(@), partial)]
    ELSE ss

\* SessionManager.clearState
clearState(ss, u) ==
  IF u \in DOMAIN ss THEN [ss EXCEPT ![u].state = NoState] ELSE ss

Waiting == {"waiting_input", "waiting_confirm"}

(***************************************************************************)
(* MessageBridge and CommandHandler.                                       *)
(*                                                                         *)
(* A call of executeTask(task) is an element of execs.  The call made by   *)
(* handle() for task t has index 2t-1, the call made by processNextTask    *)
(* for task t has index 2t; its ExecutionHandle has the same index.  pc is *)
(* the await the call is suspended at:                                     *)
(*   card        channel.sendCard(thinkingCard)                            *)
(*   drain       the next message of executionHandle.stream                *)
(*   input_card  channel.sendCard(card) of handleUserInputRequest          *)
(*   hec_*       the final card, the sleep of processNextTask and the      *)
(*               executeTask(nextTask) of handleExecutionComplete          *)
(*   fin_*       the same three awaits of executeTask's own final part     *)
(*   err_*       the same three awaits of handleExecutionError             *)
(* sid is the sessionId startExecution was given, inbound the number of    *)
(* user messages enqueued on the inputQueue of the handle, finishCalled that *)
(* finish() was called on the handle, finished that the call ended its     *)
(* inbound queue, closed that the drain loop was left, paused that it was  *)
(* left by the break after a user_input_required message, drains the      *)
(* number of for-await loops started on the stream of the handle.          *)
(***************************************************************************)
ExecIds == 1..(2 * MaxMsgs)
DirectExec(t) == 2 * t - 1
QueuedExec(t) == 2 * t

NoExec ==
  [task |-> NoTask, user |-> "", project |-> "", pc |-> "none", child |-> 0,
   sid |-> "", inbound |-> 0, finished |-> FALSE, finishCalled |-> FALSE,
   closed |-> FALSE, paused |-> FALSE, result |-> "", drains |-> 0]

\* the synchronous start of executeTask(task), up to its first await
NewExec(t, u, p) ==
  [task |-> t, user |-> u, project |-> p, pc |-> "card", child |-> 0,
   sid |-> "", inbound |-> 0, finished |-> FALSE, finishCalled |-> FALSE,
   closed |-> FALSE, paused |-> FALSE, result |-> "", drains |-> 0]

\* a handle whose sendMessage enqueues the text on its inputQueue
sendMessageEnqueues(ex, h) ==
  [thrown |-> FALSE, execs |-> [ex EXCEPT ![h].inbound = @ + 1]]

\* executionHandle.sendMessage(text) on a handle of startExecution, which has
\* stream, sendAnswer and finish only: the call throws a TypeError
sendMessage(ex, h) ==
  [thrown |-> TRUE, execs |-> ex]

finishHandleSkipped(ex, h) == ex

\* executionHandle.finish() on the handle stored in a state
finishHandle(ex, h) ==
  IF h = NoHandle THEN ex
  ELSE [ex EXCEPT ![h].finished = TRUE, ![h].finishCalled = TRUE]

\* a call of finish() that throws before it has ended the inbound queue
finishThrows(ex, h) ==
  IF h = NoHandle THEN ex ELSE [ex EXCEPT ![h].finishCalled = TRUE]

\* executeTask(e) returns: the call awaiting it goes on, up to its next await
RECURSIVE Return(_, _)
Return(ex, e) ==
  LET done == [ex EXCEPT ![e].pc = "done"]
      callers == {c \in ExecIds : ex[c].child = e
                                   /\ ex[c].pc \in {"hec_wait", "fin_wait", "err_wait"}}
  IN IF callers = {} THEN done
     ELSE LET c == CHOOSE x \in callers : TRUE
          IN IF ex[c].pc = "hec_wait"
               THEN [done EXCEPT ![c].pc = "fin_card", ![c].child = 0]
               ELSE Return([done EXCEPT ![c].child = 0], c)

\* executeTask after its drain loop: handleExecutionComplete unless the state is
\* absent or waiting
afterLoop(ss, u) ==
  LET st == getState(ss, u)
  IN IF st.status # "none" /\ st.status \notin Waiting
       THEN [sessions |-> clearState(ss, u), pc |-> "hec_card"]
       ELSE [sessions |-> ss, pc |-> "fin_card"]


\* CommandHandler.parseCommand: the command types it accepts
validCommands == {"switch", "reset", "stop", "status", "help", "skills", "projects"}

\* the commands the users send: /help, /skills and /projects, like /status,
\* read the state and send a card
Commands == {"switch", "reset", "stop", "status"}

\* the first argument of a /switch: a project of the bot, or no such project
SwitchArgs == Projects \cup {"unknown"}

\* the ids of the waiting tasks of a user in a list, in list order
RECURSIVE myWaitingTasks(_, _)
myWaitingTasks(q, u) ==
  IF q = <<>> THEN <<>>
  ELSE (IF q[1].userId = u /\ q[1].status = "waiting" THEN <<q[1].id>> ELSE <<>>)
       \o myWaitingTasks(Tail(q), u)

\* the loop of handleStop: taskQueue.cancel on each of the ids
RECURSIVE cancelEach(_, _)
cancelEach(q, ids) ==
  IF ids = <<>> THEN q ELSE cancelEach(cancel(q, Head(ids)), Tail(ids))

\* CommandHandler.handleStop: the lists afterwards
handleStop(qs, sel, u) ==
  LET p == getUserProject(sel, u)
  IN [qs EXCEPT ![p] = cancelEach(qs[p], myWaitingTasks(qs[p], u))]

\* CommandHandler.handleSwitch: the sessions and the selections afterwards
handleSwitch(ss, sel, u, arg, clear) ==
  IF arg \notin Projects
    THEN [sessions |-> ss, selections |-> sel]
    ELSE [sessions |-> IF clear THEN deleteSession(ss, u) ELSE ss,
          selections |-> [sel EXCEPT ![u] = arg]]

(***************************************************************************)
(* The TaskQueue under any sequence of calls (specification SpecTQ).       *)
(***************************************************************************)
\* the card fields of a new MessageBridge: the throttle fields and the tool
\* calls the card shows; flush: the channel call of a doUpdateCard run by the
\* timer is in flight; updates: calls of updateCard; sent, sentAt: progress
\* updates sent to the channel, and when the last one of the current
\* execution was sent
NewCard ==
  [lastUpdateTime |-> 0, pendingUpdate |-> NoTimer, pendingCardContent |-> FALSE,
   flush |-> FALSE, updates |-> 0, sent |-> 0, sentAt |-> NoTime,
   toolCalls |-> <<>>]

\* the resets of executeTask at its start
resetCard(c) ==
  [c EXCEPT !.lastUpdateTime = 0, !.pendingUpdate = NoTimer,
            !.pendingCardContent = FALSE, !.sentAt = NoTime,
            !.toolCalls = <<>>]

\* the resets of the finally block of executeTask
finallyReset(c) ==
  [c EXCEPT !.lastUpdateTime = 0, !.pendingUpdate = NoTimer,
            !.pendingCardContent = FALSE, !.sentAt = NoTime]

\* MessageBridge.addToolCall(name, input)
addToolCall(c, name) ==
  [c EXCEPT !.toolCalls = Append(@, [name |-> name, status |-> "running"])]

\* the index of the last tool call that is running, 0 if there is none
RECURSIVE LastRunning(_, _)
LastRunning(tc, n) ==
  IF n = 0 THEN 0
  ELSE IF tc[n].status = "running" THEN n ELSE LastRunning(tc, n - 1)

\* the index of the first tool call that is running, 0 if there is none
RECURSIVE FirstRunning(_, _)
FirstRunning(tc, n) ==
  IF n > Len(tc) THEN 0
  ELSE IF tc[n].status = "running" THEN n ELSE FirstRunning(tc, n + 1)

\* a completeLastTool that searches from the front
completeFirstTool(c) ==
  LET i == FirstRunning(c.toolCalls, 1)
  IN IF i = 0 THEN c ELSE [c EXCEPT !.toolCalls[i].status = "done"]

\* MessageBridge.completeLastTool()
completeLastTool(c) ==
  LET i == LastRunning(c.toolCalls, Len(c.toolCalls))
  IN IF i = 0 THEN c ELSE [c EXCEPT !.toolCalls[i].status = "done"]

\* the loops of handleExecutionComplete and executeTask over this.toolCalls
\* before a final card: every running tool call becomes done
completeAllTools(c) ==
  [c EXCEPT !.toolCalls = [i \in 1..Len(@) |-> [@[i] EXCEPT !.status = "done"]]]

\* clearTimeout(this.pendingUpdate) before a final or an error card
cancelPending(c) == [c EXCEPT !.pendingUpdate = NoTimer]

\* MessageBridge.doUpdateCard up to its channel call
doUpdateCard(c, time) ==
  IF ~c.pendingCardContent THEN c
  ELSE [c EXCEPT !.pendingCardContent = FALSE, !.sent = @ + 1, !.sentAt = time]

\* MessageBridge.updateCard up to its return or its channel call
updateCard(c, time) ==
  LET timeSinceLastUpdate == time - c.lastUpdateTime
  IN IF timeSinceLastUpdate < minUpdateInterval
       THEN [c EXCEPT !.pendingCardContent = TRUE,
                      !.pendingUpdate = time + (minUpdateInterval - timeSinceLastUpdate)]
       ELSE doUpdateCard([c EXCEPT !.pendingCardContent = TRUE,
                                   !.pendingUpdate = NoTimer], time)

\* new AsyncQueue()
NewAsyncQueue == [queue |-> <<>>, resolve |-> FALSE, finished |-> FALSE]

\* AsyncQueue.enqueue(item)
AsyncQueueEnqueueNoWake(q, item) ==
  IF q.finished THEN q ELSE [q EXCEPT !.queue = Append(@, item)]
AsyncQueueEnqueueAfterFinish(q, item) ==
  [q EXCEPT !.queue = Append(@, item), !.resolve = FALSE]
AsyncQueueEnqueue(q, item) ==
  IF q.finished THEN q
  ELSE [q EXCEPT !.queue = Append(@, item), !.resolve = FALSE]

\* AsyncQueue.finish()
AsyncQueueFinishToggles(q) == [q EXCEPT !.finished = ~@, !.resolve = FALSE]
AsyncQueueFinish(q) == [q EXCEPT !.finished = TRUE, !.resolve = FALSE]

\* the resolver of the suspended consumer is called: its continuation is scheduled
Woken(q, q2, c) ==
  IF q.resolve /\ ~q2.resolve THEN [c EXCEPT !.pc = "woken"] ELSE c

\* the body of the iterator, run from the test of its inner loop up to the
\* next yield, return or await
AsyncQueueNext(q, c) ==
  IF Len(q.queue) > 0
    THEN [q |-> [q EXCEPT !.queue = Tail(@)],
          c |-> [c EXCEPT !.pc = "idle", !.received = Append(@, Head(q.queue))]]
    ELSE IF q.finished
      THEN [q |-> q, c |-> [c EXCEPT !.pc = "done"]]
      ELSE [q |-> [q EXCEPT !.resolve = TRUE], c |-> [c EXCEPT !.pc = "suspended"]]

NoRet == [op |-> "none", key |-> "", id |-> NoTask, val |-> NoTask]

Init ==
  /\ queues = [k \in Projects |-> <<>>]
  /\ runningTasks = [k \in Projects |-> NoTask]
  /\ nextId = 1
  /\ now = 0
  /\ ret = NoRet
  /\ sessions = EmptyMap
  /\ userProjectSelections = [u \in Users |-> ""]
  /\ execs = [e \in ExecIds |-> NoExec]
  /\ finalCards = [t \in 1..MaxMsgs |-> 0]
  /\ errorCards = [t \in 1..MaxMsgs |-> 0]
  /\ notices = {}
  /\ replies = 0
  /\ everRunning = {}
  /\ inputQueue = NewAsyncQueue
  /\ consumer = [pc |-> "idle", received |-> <<>>]
  /\ producer = [calls |-> 0, before |-> <<>>, finishes |-> 0]
  /\ resetAt = [u \in Users |-> NoTask]
  /\ clock = minUpdateInterval
  /\ card = NewCard

TQEnqueue(k, u) ==
  /\ nextId <= MaxTasks
  /\ queues' = [queues EXCEPT ![k] = enqueue(queues[k], nextId, u)]
  /\ nextId' = nextId + 1
  /\ ret' = [op |-> "enqueue", key |-> k, id |-> nextId, val |-> nextId]
  /\ UNCHANGED <<aqVars, resetAt, clock, card, runningTasks, now>>
  /\ UNCHANGED <<bridgeVars, aqVars, resetAt, clock, card>>

TQGetNext(k) ==
  LET i == getNextIndex(queues[k])
  IN /\ queues' = [queues EXCEPT ![k] = getNext(queues[k])]
     /\ runningTasks' = IF i = 0 THEN runningTasks
                        ELSE [runningTasks EXCEPT ![k] = queues[k][i].id]
     /\ ret' = [op |-> "getNext", key |-> k, id |-> NoTask,
                val |-> IF i = 0 THEN NoTask ELSE queues[k][i].id]
     /\ UNCHANGED <<aqVars, resetAt, clock, card, nextId, now>>
     /\ UNCHANGED <<bridgeVars, aqVars, resetAt, clock, card>>

TQComplete(id) ==
  LET k == KeyOf(queues, id)
  IN /\ queues' = queuesAfterComplete(queues, id, now)
     /\ runningTasks' = markersAfterEnd(runningTasks, queues, id)
     /\ ret' = [op |-> "complete", key |-> k, id |-> id, val |-> NoTask]
     /\ UNCHANGED <<aqVars, resetAt, clock, card, nextId, now>>
     /\ UNCHANGED <<bridgeVars, aqVars, resetAt, clock, card>>

TQFail(id) ==
  LET k == KeyOf(queues, id)
  IN /\ queues' = queuesAfterFail(queues, id, "error", now)
     /\ runningTasks' = markersAfterEnd(runningTasks, queues, id)
     /\ ret' = [op |-> "fail", key |-> k, id |-> id, val |-> NoTask]
     /\ UNCHANGED <<aqVars, resetAt, clock, card, nextId, now>>
     /\ UNCHANGED <<bridgeVars, aqVars, resetAt, clock, card>>

TQCancel(id) ==
  LET k == KeyOf(queues, id)
  IN /\ IF k = "" THEN UNCHANGED queues
        ELSE queues' = [queues EXCEPT ![k] = cancel(queues[k], id)]
     /\ ret' = [op |-> "cancel", key |-> k, id |-> id,
                val |-> IF k # "" /\ cancelResult(queues[k], id) THEN 1 ELSE 0]
     /\ UNCHANGED <<aqVars, resetAt, clock, card, runningTasks, nextId, now>>
     /\ UNCHANGED <<bridgeVars, aqVars, resetAt, clock, card>>

NextTQ ==
  \/ \E k \in Projects, u \in QueueUsers : TQEnqueue(k, u)
  \/ \E k \in Projects : TQGetNext(k)
  \/ \E id \in 1..MaxTasks : TQComplete(id)
  \/ \E id \in 1..MaxTasks : TQFail(id)
  \/ \E id \in 1..MaxTasks : TQCancel(id)

SpecTQ == Init /\ [][NextTQ]_vars

(***************************************************************************)
(* Properties of the TaskQueue (checked under SpecTQ).                     *)
(***************************************************************************)
\* the ids of the tasks in a list, in list order
Ids(q) == [i \in 1..Len(q) |-> q[i].id]

\* the statuses of the tasks in a list, in list order
Statuses(q) == [i \in 1..Len(q) |-> q[i].status]

\* some task of the list has status running
HasRunning(q) == \E i \in 1..Len(q) : q[i].status = "running"

\* C3 (Scenario A): on a key whose list is <<T1>> with T1 waiting, getNext
\* returns T1 and T1 is running; on <<T1, T2>> with T1 running and T2
\* waiting, getNext returns null and T2 stays waiting; on <<T1, T2>> with T1
\* completed and T2 waiting, getNext returns T2 and T2 is running.
C3_ScenarioA ==
  [][\A k \in Projects :
       (ret'.op = "getNext" /\ ret'.key = k) =>
         LET q == queues[k]
             st == Statuses(q)
         IN /\ st = <<"waiting">> =>
                 ret'.val = q[1].id /\ Statuses(queues'[k]) = <<"running">>
            /\ st = <<"running", "waiting">> =>
                 ret'.val = NoTask /\ Statuses(queues'[k]) = st
            /\ st = <<"completed", "waiting">> =>
                 ret'.val = q[2].id
                 /\ Statuses(queues'[k]) = <<"completed", "running">>]_vars

\* C4: cancel(taskId) returns true and removes the task from the list of its
\* key if and only if the task was waiting when it was called; otherwise
\* (running, completed, failed, unknown id) it returns false and the lists,
\* statuses, positions and running markers are all unchanged.
C4_CancelIffWaiting ==
  [][ret'.op = "cancel" =>
       LET id == ret'.id
           k == KeyOf(queues, id)
           wasWaiting == k # "" /\ TaskAt(queues, k, id).status = "waiting"
       IN /\ (ret'.val = 1) <=> wasWaiting
          /\ wasWaiting =>
               /\ KeyOf(queues', id) = ""
               /\ Ids(queues'[k]) = SelectSeq(Ids(queues[k]), LAMBDA x : x # id)
               /\ \A j \in Projects \ {k} : queues'[j] = queues[j]
          /\ ~wasWaiting => queues' = queues /\ runningTasks' = runningTasks]_vars

\* C4 witness: cancel has just returned true for a task that is gone from the lists
C4_Witness ==
  /\ ret.op = "cancel" /\ ret.val = 1
  /\ KeyOf(queues, ret.id) = ""
  /\ \E k \in Projects : HasRunning(queues[k])

\* C5: for every key the positions of the waiting tasks are 0,1,...,n-1 in
\* list (enqueue) order.
C5_PositionsContiguous ==
  \A k \in Projects : \A i \in 1..Len(queues[k]) :
    queues[k][i].status = "waiting" =>
      queues[k][i].position = WaitingBefore(queues[k], i - 1)

\* the thinking card was sent: startExecution, setState, and the drain loop starts
ExecStart(e) ==
  LET x == execs[e]
      sessionId == IF x.user \in DOMAIN sessions
                     THEN sessions[x.user].claudeSessionId ELSE ""
  IN /\ x.pc = "card"
     /\ execs' = [execs EXCEPT ![e].pc = "drain", ![e].sid = sessionId,
                                ![e].inbound = 1, ![e].drains = 1]
     /\ sessions' = setState(sessions, x.user,
                             [status |-> "executing", currentTaskId |-> x.task,
                              executionHandle |-> e,
                              expiresAt |-> now + executionTimeout])
     /\ UNCHANGED <<aqVars, resetAt, clock, card, tqVars, now, ret, userProjectSelections, finalCards,
                    errorCards, notices, replies, everRunning>>

\* the stream yields user_input_required: handleUserInputRequest up to its sendCard
AgentInput(e, inputType) ==
  LET x == execs[e]
      status == IF inputType \in {"confirmation", "choice"}
                  THEN "waiting_confirm" ELSE "waiting_input"
  IN /\ x.pc = "drain"
     /\ sessions' = setState(setStatus(sessions, x.user, status), x.user,
                             [inputRequest |-> inputType,
                              expiresAt |-> now + inputTimeout])
     /\ execs' = [execs EXCEPT ![e].pc = "input_card"]
     /\ UNCHANGED <<aqVars, resetAt, clock, card, tqVars, now, ret, userProjectSelections, finalCards,
                    errorCards, notices, replies, everRunning>>

\* the input card was sent: break out of the drain loop, then the code after it
AfterInputCard(e) ==
  LET x == execs[e]
      a == afterLoop(sessions, x.user)
  IN /\ x.pc = "input_card"
     /\ sessions' = a.sessions
     /\ execs' = [execs EXCEPT ![e].pc = a.pc, ![e].closed = TRUE,
                                ![e].paused = TRUE]
     /\ card' = completeAllTools(cancelPending(card))
     /\ UNCHANGED <<aqVars, resetAt, clock, tqVars, now, ret, userProjectSelections, finalCards,
                    errorCards, notices, replies, everRunning>>

\* the stream yields a result message (session_id "" if it has none) or ends:
\* the session id is saved, the loop is left, then the code after it; the
\* result_type of the message is logged and not looked at
AgentResult(e, session_id, result_type) ==
  LET x == execs[e]
      saved == IF session_id # ""
                 THEN getOrCreateSession(sessions, x.user, x.project, session_id, now)
                 ELSE sessions
      a == afterLoop(saved, x.user)
  IN /\ x.pc = "drain"
     /\ sessions' = a.sessions
     /\ execs' = [execs EXCEPT ![e].pc = a.pc, ![e].closed = TRUE,
                               ![e].result = result_type]
     /\ card' = completeAllTools(cancelPending(card))
     /\ UNCHANGED <<aqVars, resetAt, clock, tqVars, now, ret, userProjectSelections, finalCards,
                    errorCards, notices, replies, everRunning>>

\* the stream throws: the catch block, handleExecutionError up to its error card
AgentError(e) ==
  LET x == execs[e]
  IN /\ x.pc = "drain"
     /\ sessions' = clearState(sessions, x.user)
     /\ queues' = queuesAfterFail(queues, x.task, "error", now)
     /\ runningTasks' = markersAfterEnd(runningTasks, queues, x.task)
     /\ execs' = [execs EXCEPT ![e].pc = "err_card", ![e].closed = TRUE]
     /\ card' = cancelPending(card)
     /\ UNCHANGED <<aqVars, resetAt, clock, nextId, now, ret, userProjectSelections, finalCards,
                    errorCards, notices, replies, everRunning>>

\* a final card was sent: taskQueue.complete, then processNextTask starts to sleep
FinalCardSent(e) ==
  LET x == execs[e]
  IN /\ x.pc \in {"hec_card", "fin_card"}
     /\ finalCards' = [finalCards EXCEPT ![x.task] = @ + 1]
     /\ queues' = queuesAfterComplete(queues, x.task, now)
     /\ runningTasks' = markersAfterEnd(runningTasks, queues, x.task)
     /\ execs' = [execs EXCEPT ![e].pc = IF x.pc = "hec_card" THEN "hec_sleep"
                                                              ELSE "fin_sleep"]
     /\ UNCHANGED <<aqVars, resetAt, clock, card, nextId, now, ret, sessions, userProjectSelections, errorCards,
                    notices, replies, everRunning>>

\* the error card was sent: processNextTask starts to sleep
ErrorCardSent(e) ==
  LET x == execs[e]
  IN /\ x.pc = "err_card"
     /\ errorCards' = [errorCards EXCEPT ![x.task] = @ + 1]
     /\ execs' = [execs EXCEPT ![e].pc = "err_sleep"]
     /\ UNCHANGED <<aqVars, resetAt, clock, card, tqVars, now, ret, sessions, userProjectSelections, finalCards,
                    notices, replies, everRunning>>

\* processNextTask after its sleep: getNext, and executeTask(nextTask) if there is one
ProcessNextTask(e) ==
  LET x == execs[e]
      q == queues[x.project]
      i == getNextIndex(q)
  IN /\ x.pc \in {"hec_sleep", "fin_sleep", "err_sleep"}
     /\ IF i = 0
          THEN /\ execs' = IF x.pc = "hec_sleep"
                             THEN [execs EXCEPT ![e].pc = "fin_card"]
                             ELSE Return(execs, e)
               /\ UNCHANGED <<queues, runningTasks, everRunning>>
          ELSE /\ queues' = [queues EXCEPT ![x.project] = getNext(q)]
               /\ runningTasks' = [runningTasks EXCEPT ![x.project] = q[i].id]
               /\ everRunning' = everRunning \cup {q[i].id}
               /\ execs' = [execs EXCEPT
                    ![e].pc = IF x.pc = "hec_sleep" THEN "hec_wait"
                              ELSE IF x.pc = "fin_sleep" THEN "fin_wait"
                              ELSE "err_wait",
                    ![e].child = QueuedExec(q[i].id),
                    ![QueuedExec(q[i].id)] = NewExec(q[i].id, q[i].userId, x.project)]
     /\ card' = IF i # 0 THEN resetCard(card)
                ELSE IF x.pc = "hec_sleep"
                  THEN completeAllTools(cancelPending(card))
                ELSE IF \E c \in ExecIds : /\ execs[c].pc = "hec_wait"
                                           /\ Return(execs, e)[c].pc = "fin_card"
                  THEN completeAllTools(finallyReset(card))
                  ELSE finallyReset(card)
     /\ UNCHANGED <<aqVars, resetAt, clock, nextId, now, ret, sessions, userProjectSelections, finalCards,
                    errorCards, notices, replies>>

\* CommandHandler.executeCommand on a command, after the check of the waiting state
executeCommand(ss, u, c, arg, clear) ==
  /\ sessions' = IF c = "reset" THEN deleteSession(ss, u)
                 ELSE IF c = "switch"
                   THEN handleSwitch(ss, userProjectSelections, u, arg, clear).sessions
                 ELSE ss
  /\ userProjectSelections' =
       IF c = "switch"
         THEN handleSwitch(ss, userProjectSelections, u, arg, clear).selections
         ELSE userProjectSelections
  /\ queues' = IF c = "stop" THEN handleStop(queues, userProjectSelections, u)
               ELSE queues

\* MessageBridge.handle on a message that parses as a command
\* (CommandHandler.handle): a waiting state is cancelled, then the command runs
CommandArrives(u, c, arg, clear) ==
  LET st == getState(sessions, u)
  IN /\ IF st.status \in Waiting
          THEN /\ execs' = finishHandle(execs, st.executionHandle)
               /\ executeCommand(clearState(sessions, u), u, c, arg, clear)
          ELSE /\ execs' = execs
               /\ executeCommand(sessions, u, c, arg, clear)
     /\ UNCHANGED <<aqVars, resetAt, clock, card, runningTasks, nextId, now, ret, finalCards, errorCards, notices, replies,
                    everRunning>>

\* MessageBridge.handle on a message that is not a command, from a user whose
\* state is waiting: CommandHandler.sendUserResponse.  The handle of
\* ClaudeExecutor.startExecution has no sendMessage, so the call throws before
\* setStatus and the catch block only sends a text.
ReplyArrives(u) ==
  /\ replies < MaxReplies
  /\ getState(sessions, u).status \in Waiting
  /\ replies' = replies + 1
  /\ UNCHANGED <<aqVars, resetAt, clock, card, tqVars, now, ret, sessions, userProjectSelections, execs,
                 finalCards, errorCards, notices, everRunning>>

\* MessageBridge.handle on a message that is not a command, from a user whose
\* state is not waiting.  A stored handle has no sendMessage either, so that
\* branch throws into its catch and falls through to the queue.
TaskArrives(u) ==
  LET p == getUserProject(userProjectSelections, u)
      h == getState(sessions, u).executionHandle
      r == IF h # NoHandle THEN sendMessage(execs, h)
           ELSE [thrown |-> TRUE, execs |-> execs]
  IN /\ nextId <= MaxMsgs
     /\ getState(sessions, u).status \notin Waiting
     /\ IF ~r.thrown
          THEN \* setStatus, then resumeExecution up to its loop over the stream
               /\ execs' = [r.execs EXCEPT ![h].drains = @ + 1]
               /\ sessions' = setStatus(sessions, u, "executing")
               /\ UNCHANGED <<nextId, queues, notices, card>>
          ELSE /\ nextId' = nextId + 1
               /\ queues' = [queues EXCEPT ![p] = enqueue(queues[p], nextId, u)]
               /\ IF isRunning(runningTasks, p)
                    THEN /\ notices' = notices \cup {nextId}
                         /\ execs' = execs
                    ELSE /\ notices' = notices
                         /\ execs' = [execs EXCEPT ![DirectExec(nextId)] = NewExec(nextId, u, p)]
               /\ card' = IF isRunning(runningTasks, p) THEN card ELSE resetCard(card)
               /\ sessions' = sessions
     /\ UNCHANGED <<aqVars, resetAt, clock, runningTasks, now, ret, userProjectSelections,
                    finalCards, errorCards, replies, everRunning>>

\* the steps of the calls of executeTask
ExecStep ==
  \/ \E e \in ExecIds : ExecStart(e)
  \/ \E e \in ExecIds, inputType \in InputTypes : AgentInput(e, inputType)
  \/ \E e \in ExecIds : AfterInputCard(e)
  \/ \E e \in ExecIds, session_id \in ConvIds \cup {""} :
       AgentResult(e, session_id, "success")
  \/ \E e \in ExecIds : AgentError(e)
  \/ \E e \in ExecIds : FinalCardSent(e)
  \/ \E e \in ExecIds : ErrorCardSent(e)
  \/ \E e \in ExecIds : ProcessNextTask(e)

\* the bridge with a user who sends tasks, replies and commands
Next ==
  \/ \E u \in QueueUsers : nextId <= MaxCmdMsgs /\ TaskArrives(u)
  \/ \E u \in QueueUsers : ReplyArrives(u)
  \/ \E u \in QueueUsers, c \in Commands \ {"switch"} :
       CommandArrives(u, c, "", FALSE)
  \/ \E u \in QueueUsers, arg \in SwitchArgs, clear \in BOOLEAN :
       CommandArrives(u, "switch", arg, clear)
  \/ ExecStep

Spec == Init /\ [][Next]_vars

\* the bridge with a user who sends nothing but tasks for the default project,
\* each execution ending with a result message that carries no session_id
NextOneKey ==
  \/ \E u \in QueueUsers : TaskArrives(u)
  \/ \E e \in ExecIds : ExecStart(e)
  \/ \E e \in ExecIds : AgentResult(e, "", "success")
  \/ \E e \in ExecIds : FinalCardSent(e)
  \/ \E e \in ExecIds : ProcessNextTask(e)

SpecOneKey == Init /\ [][NextOneKey]_vars

(***************************************************************************)
(* The progress cards of an execution and their throttle.                  *)
(***************************************************************************)
\* the outcomes of channel.updateCard: the card was updated, the request was
\* rejected by the rate limit (swallowed by FeishuChannel.updateCard), or
\* another transport error is thrown
Outcomes == {"ok", "rate_limited", "error"}

\* the stream yields a message that processSDKMessage shows: updateCard
AgentProgress(e) ==
  LET x == execs[e]
      c2 == updateCard(card, clock)
  IN /\ x.pc = "drain"
     /\ card.updates < MaxUpdates
     /\ card' = [c2 EXCEPT !.updates = @ + 1]
     /\ execs' = [execs EXCEPT ![e].pc = IF c2.sent # card.sent THEN "upd"
                                         ELSE "drain"]
     /\ UNCHANGED <<aqVars, resetAt, clock, tqVars, now, ret, sessions,
                    userProjectSelections, finalCards, errorCards, notices,
                    replies, everRunning>>

\* the stream yields a tool_use block: addToolCall, then updateCard
AgentToolUse(e, name) ==
  LET x == execs[e]
      c2 == updateCard(addToolCall(card, name), clock)
  IN /\ x.pc = "drain"
     /\ card.updates < MaxUpdates
     /\ Len(card.toolCalls) < MaxToolCalls
     /\ card' = [c2 EXCEPT !.updates = @ + 1]
     /\ execs' = [execs EXCEPT ![e].pc = IF c2.sent # card.sent THEN "upd"
                                         ELSE "drain"]
     /\ UNCHANGED <<aqVars, resetAt, clock, tqVars, now, ret, sessions,
                    userProjectSelections, finalCards, errorCards, notices,
                    replies, everRunning>>

\* the stream yields a tool_result block: completeLastTool, then updateCard
AgentToolResult(e) ==
  LET x == execs[e]
      c2 == updateCard(completeLastTool(card), clock)
  IN /\ x.pc = "drain"
     /\ card.updates < MaxUpdates
     /\ card' = [c2 EXCEPT !.updates = @ + 1]
     /\ execs' = [execs EXCEPT ![e].pc = IF c2.sent # card.sent THEN "upd"
                                         ELSE "drain"]
     /\ UNCHANGED <<aqVars, resetAt, clock, tqVars, now, ret, sessions,
                    userProjectSelections, finalCards, errorCards, notices,
                    replies, everRunning>>

\* the catch block of executeTask: handleExecutionError up to its error card
executionThrows(e) ==
  LET x == execs[e]
  IN /\ sessions' = clearState(sessions, x.user)
     /\ queues' = queuesAfterFail(queues, x.task, "error", now)
     /\ runningTasks' = markersAfterEnd(runningTasks, queues, x.task)
     /\ execs' = [execs EXCEPT ![e].pc = "err_card", ![e].closed = TRUE]
     /\ card' = cancelPending(card)
     /\ UNCHANGED <<aqVars, resetAt, clock, nextId, now, ret, userProjectSelections,
                    finalCards, errorCards, notices, replies, everRunning>>

\* the channel call of the doUpdateCard awaited by the drain loop returns
\* (updated, or rejected by the rate limit) or throws
CardUpdateReturns(e, outcome) ==
  /\ execs[e].pc = "upd"
  /\ IF outcome = "error"
       THEN executionThrows(e)
       ELSE /\ card' = [card EXCEPT !.lastUpdateTime = clock]
            /\ execs' = [execs EXCEPT ![e].pc = "drain"]
            /\ UNCHANGED <<aqVars, resetAt, clock, tqVars, now, ret, sessions,
                           userProjectSelections, finalCards, errorCards, notices,
                           replies, everRunning>>

\* the channel call of a final card throws
FinalCardFails(e) ==
  /\ execs[e].pc \in {"hec_card", "fin_card"}
  /\ executionThrows(e)

\* the trailing timer of updateCard fires: doUpdateCard up to its channel call
TimerFires ==
  LET c2 == doUpdateCard([card EXCEPT !.pendingUpdate = NoTimer], clock)
  IN /\ card.pendingUpdate # NoTimer
     /\ clock >= card.pendingUpdate
     /\ ~card.flush
     /\ card' = [c2 EXCEPT !.flush = c2.sent # card.sent]
     /\ UNCHANGED <<aqVars, resetAt, clock, tqVars, now, ret, bridgeVars>>

\* the channel call of the doUpdateCard run by the timer returns or throws;
\* nothing awaits or catches the promise of the timer callback
FlushReturns(outcome) ==
  /\ card.flush
  /\ card' = IF outcome = "error" THEN [card EXCEPT !.flush = FALSE]
             ELSE [card EXCEPT !.flush = FALSE, !.lastUpdateTime = clock]
  /\ UNCHANGED <<aqVars, resetAt, clock, tqVars, now, ret, bridgeVars>>

\* Date.now() advances, in milliseconds
ClockTick(d) ==
  /\ clock + d <= MaxClock
  /\ clock' = clock + d
  /\ UNCHANGED <<aqVars, resetAt, card, tqVars, now, ret, bridgeVars>>

\* no call of executeTask is in flight
Quiet == \A e \in ExecIds : execs[e].pc \in {"none", "done"}

\* MessageBridge.handle on /reset (CommandHandler.handle, handleReset), as
\* CommandArrives does it, with the id of the next task remembered
ResetArrives(u) ==
  LET st == getState(sessions, u)
  IN /\ IF st.status \in Waiting
          THEN /\ execs' = finishHandle(execs, st.executionHandle)
               /\ executeCommand(clearState(sessions, u), u, "reset", "", FALSE)
          ELSE /\ execs' = execs
               /\ executeCommand(sessions, u, "reset", "", FALSE)
     /\ resetAt' = [resetAt EXCEPT ![u] = nextId]
     /\ UNCHANGED <<aqVars, clock, card, runningTasks, nextId, now, ret, finalCards, errorCards,
                    notices, replies, everRunning>>

\* the bridge with a user who sends a task only when no task is executing and
\* /reset at any time, and an agent whose result messages carry a
\* conversation id or none
NextReset ==
  \/ \E u \in QueueUsers : Quiet /\ nextId <= MaxSeqMsgs /\ TaskArrives(u)
  \/ \E u \in QueueUsers : ResetArrives(u)
  \/ \E e \in ExecIds : ExecStart(e)
  \/ \E e \in ExecIds, session_id \in ConvIds \cup {""} :
       AgentResult(e, session_id, "success")
  \/ \E e \in ExecIds : FinalCardSent(e)
  \/ \E e \in ExecIds : ProcessNextTask(e)

SpecReset == Init /\ [][NextReset]_vars

\* the bridge with the executions of a user who sends a task only when no
\* task is executing, their progress messages, the clock and the channel
NextCard ==
  \/ \E u \in QueueUsers : Quiet /\ nextId <= MaxCardMsgs /\ TaskArrives(u)
  \/ \E e \in ExecIds : ExecStart(e)
  \/ \E e \in ExecIds : AgentProgress(e)
  \/ \E e \in ExecIds, outcome \in Outcomes : CardUpdateReturns(e, outcome)
  \/ \E e \in ExecIds : FinalCardFails(e)
  \/ TimerFires
  \/ \E outcome \in Outcomes : FlushReturns(outcome)
  \/ \E d \in ClockSteps : ClockTick(d)
  \/ \E e \in ExecIds : AgentResult(e, "c1", "success")
  \/ \E e \in ExecIds : AgentError(e)
  \/ \E e \in ExecIds : FinalCardSent(e)
  \/ \E e \in ExecIds : ErrorCardSent(e)
  \/ \E e \in ExecIds : ProcessNextTask(e)

SpecCard == Init /\ [][NextCard]_vars

\* the bridge with a user who sends a task, a reply or a command only when no
\* task is executing, and an agent whose result messages are of every type
NextSeq ==
  \/ \E u \in QueueUsers : Quiet /\ nextId <= MaxSeqMsgs /\ TaskArrives(u)
  \/ \E u \in QueueUsers : Quiet /\ ReplyArrives(u)
  \/ \E u \in QueueUsers, c \in Commands \ {"switch"} :
       Quiet /\ CommandArrives(u, c, "", FALSE)
  \/ \E u \in QueueUsers, arg \in SwitchArgs, clear \in BOOLEAN :
       Quiet /\ CommandArrives(u, "switch", arg, clear)
  \/ \E e \in ExecIds : ExecStart(e)
  \/ \E e \in ExecIds, inputType \in InputTypes : AgentInput(e, inputType)
  \/ \E e \in ExecIds : AfterInputCard(e)
  \/ \E e \in ExecIds, session_id \in ConvIds \cup {""}, result_type \in ResultTypes :
       AgentResult(e, session_id, result_type)
  \/ \E e \in ExecIds : AgentError(e)
  \/ \E e \in ExecIds : FinalCardSent(e)
  \/ \E e \in ExecIds : ErrorCardSent(e)
  \/ \E e \in ExecIds : ProcessNextTask(e)

SpecSeq == Init /\ [][NextSeq]_vars

(***************************************************************************)
(* An AsyncQueue with a producer that calls enqueue and finish in any      *)
(* order and one consumer that iterates it.                                *)
(***************************************************************************)
otherVars == <<tqVars, now, ret, bridgeVars, resetAt, clock, card>>

\* the producer calls enqueue with a new item
AQEnqueue ==
  LET item == producer.calls + 1
      q2 == AsyncQueueEnqueue(inputQueue, item)
  IN /\ producer.calls < MaxItems
     /\ inputQueue' = q2
     /\ consumer' = Woken(inputQueue, q2, consumer)
     /\ producer' = [producer EXCEPT
                       !.calls = item,
                       !.before = IF inputQueue.finished THEN @ ELSE Append(@, item)]
     /\ UNCHANGED otherVars

\* the producer calls finish, for the first time or again
AQFinish ==
  LET q2 == AsyncQueueFinish(inputQueue)
  IN /\ producer.finishes < MaxFinishes
     /\ inputQueue' = q2
     /\ consumer' = Woken(inputQueue, q2, consumer)
     /\ producer' = [producer EXCEPT !.finishes = @ + 1]
     /\ UNCHANGED otherVars

\* the consumer asks for the next item
AQPull ==
  LET r == AsyncQueueNext(inputQueue, consumer)
  IN /\ consumer.pc = "idle"
     /\ inputQueue' = r.q
     /\ consumer' = r.c
     /\ UNCHANGED <<producer, otherVars>>

\* the continuation of the woken consumer runs
AQResume ==
  LET r == AsyncQueueNext(inputQueue, consumer)
  IN /\ consumer.pc = "woken"
     /\ inputQueue' = r.q
     /\ consumer' = r.c
     /\ UNCHANGED <<producer, otherVars>>

NextAQ == AQEnqueue \/ AQFinish \/ AQPull \/ AQResume

\* the consumer keeps iterating and a scheduled continuation runs
SpecAQ == Init /\ [][NextAQ]_vars /\ WF_vars(AQPull) /\ WF_vars(AQResume)

(***************************************************************************)
(* The SessionManager under the calls the bridge and the command handler   *)
(* make, and its timeout checker (specification SpecSM).                   *)
(***************************************************************************)
TimedOutWaitingOnly(ss, time) ==
  {u \in DOMAIN ss : LET st == ss[u].state
                     IN /\ st.expiresAt # 0
                        /\ time > st.expiresAt
                        /\ st.status \in Waiting}

\* the sessions the timeout checker finds timed out
TimedOut(ss, time) ==
  {u \in DOMAIN ss : LET st == ss[u].state
                     IN /\ st.status # "none"
                        /\ st.expiresAt # 0
                        /\ time > st.expiresAt
                        /\ st.status # "idle"}

\* the callback of startTimeoutChecker: the sessions afterwards
sweepSessionsDeleting(ss, time) ==
  [u \in DOMAIN ss \ TimedOut(ss, time) |-> ss[u]]
sweepSessions(ss, time) ==
  [u \in DOMAIN ss |-> IF u \in TimedOut(ss, time)
                         THEN [ss[u] EXCEPT !.state = NoState] ELSE ss[u]]

\* the callback of startTimeoutChecker: the handles afterwards, when finish()
\* throws on the handles of thrown
sweepHandles(ex, ss, time, thrown) ==
  LET hs == {ss[u].state.executionHandle : u \in TimedOut(ss, time)} \ {NoHandle}
  IN [e \in DOMAIN ex |-> IF e \notin hs THEN ex[e]
                          ELSE IF e \in thrown THEN finishThrows(ex, e)[e]
                          ELSE finishHandle(ex, e)[e]]

\* the interval callback of startTimeoutChecker runs
TimeoutSweep(thrown) ==
  /\ sessions' = sweepSessions(sessions, now)
  /\ execs' = sweepHandles(execs, sessions, now, thrown)
  /\ UNCHANGED <<aqVars, resetAt, clock, card, tqVars, now, ret, userProjectSelections, finalCards, errorCards,
                 notices, replies, everRunning>>

\* Date.now() advances
Tick(d) ==
  /\ now + d <= MaxTime
  /\ now' = now + d
  /\ UNCHANGED <<aqVars, resetAt, clock, card, tqVars, ret, bridgeVars>>

\* a call of getOrCreateSession
SMGetOrCreateSession(u, projectId, claudeSessionId) ==
  /\ sessions' = getOrCreateSession(sessions, u, projectId, claudeSessionId, now)
  /\ UNCHANGED <<aqVars, resetAt, clock, card, tqVars, now, ret, userProjectSelections, execs, finalCards,
                 errorCards, notices, replies, everRunning>>

\* the call of setState of executeTask, storing handle h for task h
SMSetExecuting(u, h) ==
  /\ sessions' = setState(sessions, u,
                          [status |-> "executing", currentTaskId |-> h,
                           executionHandle |-> h,
                           expiresAt |-> now + executionTimeout])
  /\ UNCHANGED <<aqVars, resetAt, clock, card, tqVars, now, ret, userProjectSelections, execs, finalCards,
                 errorCards, notices, replies, everRunning>>

\* the calls of setStatus and setState of handleUserInputRequest
SMInputRequest(u, inputType) ==
  /\ sessions' = setState(setStatus(sessions, u,
                                    IF inputType = "text" THEN "waiting_input"
                                    ELSE "waiting_confirm"),
                          u, [inputRequest |-> inputType,
                              expiresAt |-> now + inputTimeout])
  /\ UNCHANGED <<aqVars, resetAt, clock, card, tqVars, now, ret, userProjectSelections, execs, finalCards,
                 errorCards, notices, replies, everRunning>>

\* a call of clearState
SMClearState(u) ==
  /\ sessions' = clearState(sessions, u)
  /\ UNCHANGED <<aqVars, resetAt, clock, card, tqVars, now, ret, userProjectSelections, execs, finalCards,
                 errorCards, notices, replies, everRunning>>

\* a call of deleteSession
SMDeleteSession(u) ==
  /\ sessions' = deleteSession(sessions, u)
  /\ UNCHANGED <<aqVars, resetAt, clock, card, tqVars, now, ret, userProjectSelections, execs, finalCards,
                 errorCards, notices, replies, everRunning>>

\* the handle the calls of SpecSweep store for a user
HandleOf(u) == IF u = "u1" THEN 1 ELSE MaxHandles

\* the sessions under calls of getOrCreateSession, setState of executeTask and
\* deleteSession
NextSM ==
  \/ \E u \in Users, p \in Projects, c \in ConvIds : SMGetOrCreateSession(u, p, c)
  \/ \E u \in Users : SMSetExecuting(u, HandleOf(u))
  \/ \E u \in Users : SMDeleteSession(u)
  \/ \E d \in TickSteps : Tick(d)

SpecSM == Init /\ [][NextSM]_vars

\* the interactive states of the sessions of the default project under the
\* calls of the bridge and the timeout checker
NextSweep ==
  \/ \E u \in Users : SMGetOrCreateSession(u, currentProjectId, "c1")
  \/ \E u \in Users : SMSetExecuting(u, HandleOf(u))
  \/ \E u \in Users, inputType \in {"confirmation", "text"} :
       SMInputRequest(u, inputType)
  \/ \E u \in Users : SMClearState(u)
  \/ \E d \in TickSteps : Tick(d)
  \/ \E thrown \in SUBSET (1..MaxHandles) : TimeoutSweep(thrown)

SpecSweep == Init /\ [][NextSweep]_vars

\* the timeout checker next to a Task Queue with waiting and running tasks
NextSweepTQ ==
  \/ \E u \in Users : SMGetOrCreateSession(u, currentProjectId, "c1")
  \/ \E u \in Users : SMSetExecuting(u, HandleOf(u))
  \/ \E u \in QueueUsers : SMInputRequest(u, "text")
  \/ \E u \in QueueUsers : TQEnqueue(currentProjectId, u)
  \/ TQGetNext(currentProjectId)
  \/ \E d \in TickSteps : Tick(d)
  \/ \E thrown \in SUBSET (1..MaxHandles) : TimeoutSweep(thrown)

SpecSweepTQ == Init /\ [][NextSweepTQ]_vars

(***************************************************************************)
(* Properties of the bridge.                                               *)
(***************************************************************************)
\* the call of executeTask has started and has not left its drain loop
Executing(x) == x.pc \in {"card", "drain", "upd", "input_card"}

\* the number of tasks of a list with status running
NumRunning(q) == Cardinality({i \in 1..Len(q) : q[i].status = "running"})

\* C1: in every reachable state, for every workspace key, at most one task of
\* the Task Queue has status running (checked under SpecOneKey).
C1_AtMostOneRunning == \A k \in Projects : NumRunning(queues[k]) <= 1

\* C2: when a non-command message arrives for a workspace while a task of that
\* workspace is executing, the Task Queue reports the workspace as running and
\* the new task is enqueued as waiting with a queue-position notice instead of
\* being started, so that two tasks of one key never execute at the same time
\* (checked under SpecOneKey).
C2_ArrivalWhileExecutingIsQueued ==
  [][\A u \in Users :
       LET p == getUserProject(userProjectSelections, u)
       IN (/\ TaskArrives(u)
           /\ \E e \in ExecIds : Executing(execs[e]) /\ execs[e].project = p)
          => /\ isRunning(runningTasks, p)
             /\ nextId \in notices'
             /\ execs'[DirectExec(nextId)] = NoExec
             /\ \A e1, e2 \in ExecIds :
                  (/\ Executing(execs'[e1]) /\ Executing(execs'[e2])
                   /\ execs'[e1].project = execs'[e2].project)
                  => execs'[e1].task = execs'[e2].task]_vars

\* the task has been given status running by getNext, or handle() has started
\* to execute it on arrival
Started(t) == t \in everRunning \/ execs[DirectExec(t)] # NoExec

\* C6: strict FIFO per key: of two tasks of the same key that are not
\* cancelled, the one enqueued earlier becomes running before the other one
\* does, so the later one has not been started unless the earlier one has
\* (checked under SpecOneKey).
C6_FifoStartOrder ==
  \A k \in Projects : \A i, j \in 1..Len(queues[k]) :
    (i < j /\ Started(queues[k][j].id)) => Started(queues[k][i].id)

\* C7: in every reachable state and for every session, the stored
\* executionHandle is non-null if and only if status is executing,
\* waiting_input or waiting_confirm (checked under Spec).
C7_HandleIffActive ==
  \A u \in DOMAIN sessions :
    LET st == sessions[u].state
    IN (st.executionHandle # NoHandle)
         <=> (st.status \in {"executing", "waiting_input", "waiting_confirm"})

\* C8 (Scenario B): whenever the drain loop of user U's execution receives an
\* input_required event, U's status becomes waiting_confirm (confirmation or
\* choice) or waiting_input (text), the input request is recorded and
\* expiresAt is set 5 minutes ahead; when U's next non-command message then
\* arrives, U's status becomes executing (checked under Spec).
C8_ScenarioB ==
  [][/\ \A e \in ExecIds, inputType \in InputTypes :
          AgentInput(e, inputType) =>
            LET st == getState(sessions', execs[e].user)
            IN /\ st.status = IF inputType = "text" THEN "waiting_input"
                              ELSE "waiting_confirm"
               /\ st.inputRequest = inputType
               /\ st.expiresAt = now + inputTimeout
     /\ \A u \in Users :
          ReplyArrives(u) => getState(sessions', u).status = "executing"]_vars

\* C9: when the drain loop of task T was left because of an input_required
\* event and its user is still waiting (the conversation has not been ended),
\* T is not marked completed, no final result card is sent for T and the next
\* waiting task of T's workspace is not started (checked under Spec).
C9_PauseKeepsTaskOpen ==
  [][\A e \in ExecIds :
       (/\ execs[e].paused /\ ~execs[e].finished
        /\ getState(sessions, execs[e].user).status \in Waiting)
         => ~FinalCardSent(e) /\ ~ProcessNextTask(e)]_vars

\* what Scenario D requires of the step that handles command c of user u
ScenarioDStep(u, c, arg) ==
  LET h == getState(sessions, u).executionHandle
      p == getUserProject(userProjectSelections, u)
  IN /\ h # NoHandle => execs'[h].finished
     /\ getState(sessions', u) = NoState
     /\ replies' = replies
     /\ nextId' = nextId
     /\ \A e \in ExecIds : execs'[e].pc = execs[e].pc
     /\ c = "reset" => u \notin DOMAIN sessions'
     /\ c = "stop" => myWaitingTasks(queues'[p], u) = <<>>
     /\ (c = "switch" /\ arg \in Projects) => userProjectSelections'[u] = arg

\* C10 (Scenario D): whenever a recognized command arrives from user U while
\* U's status is waiting_input or waiting_confirm, finish() is called on U's
\* stored handle, U's interactive state is cleared and the message is executed
\* as a command; it is not handled as a reply and starts no task (checked
\* under Spec).
C10_ScenarioD ==
  [][\A u \in Users :
       (/\ getState(sessions, u).status \in Waiting
        /\ UNCHANGED <<runningTasks, finalCards, errorCards, notices, everRunning>>)
       => /\ \A c \in Commands \ {"switch"} :
               CommandArrives(u, c, "", FALSE) => ScenarioDStep(u, c, "")
          /\ \A arg \in SwitchArgs, clear \in BOOLEAN :
               CommandArrives(u, "switch", arg, clear)
                 => ScenarioDStep(u, "switch", arg)]_vars

\* a command has ended the conversation of a user who was waiting, and the
\* user's interactive state is absent
C10_Witness ==
  \E e \in ExecIds :
    execs[e].finished /\ getState(sessions, execs[e].user).status = "none"

\* C12: whenever a user's status is waiting_input or waiting_confirm, a handle
\* is stored and a non-command message arrives, its text is injected exactly
\* once into the inbound queue of the stored handle and the message creates no
\* task in the Task Queue (checked under Spec).
C12_ReplyInjectedOnce ==
  [][\A u \in Users :
       LET h == getState(sessions, u).executionHandle
       IN (ReplyArrives(u) /\ h # NoHandle)
            => /\ execs'[h].inbound = execs[h].inbound + 1
               /\ queues' = queues
               /\ nextId' = nextId]_vars

\* C13: after a reply to a paused conversation the same execution handle is
\* drained from where it stopped: its stream is still open and a drain loop is
\* reading it (checked under Spec).
C13_ResumeDrainsSameHandle ==
  [][\A u \in Users :
       LET h == getState(sessions, u).executionHandle
       IN (ReplyArrives(u) /\ h # NoHandle /\ execs[h].paused)
            => ~execs'[h].closed /\ execs'[h].pc = "drain"]_vars

\* the status of a task in the Task Queue ("none" if no list holds the task)
StatusOf(qs, id) ==
  LET k == KeyOf(qs, id)
  IN IF k = "" THEN "none" ELSE qs[k][IndexOfId(qs[k], id)].status

\* the error detail of a task in the Task Queue
ErrorOf(qs, id) ==
  LET k == KeyOf(qs, id)
  IN IF k = "" THEN "" ELSE qs[k][IndexOfId(qs[k], id)].error

\* C14: if an error occurs during the execution of task T, the interactive
\* state of T's user is cleared and T is marked failed with the error detail;
\* the error card is sent before the next task of the workspace is pulled
\* (checked under Spec).
C14_ErrorFailsTask ==
  [][\A e \in ExecIds :
       AgentError(e) =>
         /\ getState(sessions', execs[e].user) = NoState
         /\ StatusOf(queues', execs[e].task) = "failed"
         /\ ErrorOf(queues', execs[e].task) = "error"
         /\ execs'[e].pc = "err_card"]_vars

\* C15: when the conversation of a task ends with an error outcome (a result
\* message of type error_during_execution, error_max_turns or
\* error_max_budget_usd), the task is never completed, no success card is sent
\* for it, and once its call is over the task is failed, an error card was
\* sent and the user's interactive state is cleared.
C15_ErrorOutcomeFailsTask ==
  \A e \in ExecIds :
    LET x == execs[e]
    IN x.result \in ErrorResultTypes
         => /\ StatusOf(queues, x.task) # "completed"
            /\ finalCards[x.task] = 0
            /\ x.pc = "done"
                 => /\ StatusOf(queues, x.task) = "failed"
                    /\ errorCards[x.task] > 0
                    /\ getState(sessions, x.user).status \notin {"executing"}

\* the terminal statuses of a task
Terminal == {"completed", "failed"}

\* C16: on a normal (non-pause) exit of the drain loop of task T the final
\* result card is sent with the interactive state cleared and before T is
\* marked completed, and the next waiting task is pulled only once T is
\* terminal: no final card of T is sent when T is already completed.
C16_FinalizationOrder ==
  [][\A e \in ExecIds :
       LET x == execs[e]
       IN ~x.paused
            => /\ FinalCardSent(e)
                    => /\ StatusOf(queues, x.task) \notin Terminal
                       /\ getState(sessions, x.user).status # "executing"
                       /\ StatusOf(queues', x.task) = "completed"
               /\ ProcessNextTask(e)
                    => StatusOf(queues, x.task) \in Terminal]_vars

\* C17: after a result message carrying conversation id c is processed for
\* user U, the session of U holds conversation id c, whether or not a
\* session existed for U before.
C17_ResultSavesConversationId ==
  [][\A e \in ExecIds, c \in ConvIds, result_type \in ResultTypes :
       AgentResult(e, c, result_type)
         => /\ execs[e].user \in DOMAIN sessions'
            /\ sessions'[execs[e].user].claudeSessionId = c]_vars

\* C18: a task is only started with a resume id taken from a session whose
\* workspace equals the workspace of the task.
C18_ResumeIdOfSameWorkspace ==
  [][\A e \in ExecIds :
       (ExecStart(e) /\ execs'[e].sid # "")
         => /\ execs[e].user \in DOMAIN sessions
            /\ sessions[execs[e].user].projectId = execs[e].project
            /\ sessions[execs[e].user].claudeSessionId = execs'[e].sid]_vars

\* C25: a switch command naming an unknown workspace is an input error: it
\* leaves the Task Queue, the user's workspace selection, the session with its
\* interactive state and the execution handles as they were, in whatever
\* interactive status the user was when the message arrived.
C25_InputErrorChangesNoState ==
  [][\A u \in Users, clear \in BOOLEAN :
       CommandArrives(u, "switch", "unknown", clear)
         => UNCHANGED <<queues, runningTasks, userProjectSelections, sessions,
                        execs>>]_vars

\* C26: right after executeTask has stored the handle with setState, getState
\* of the user reports status executing together with the task id, the
\* execution handle and the total-execution deadline (the state being lazily
\* initialised if it was absent).
C26_SetStateThenGetState ==
  [][\A e \in ExecIds :
       ExecStart(e)
         => LET st == getState(sessions', execs[e].user)
            IN /\ st.status = "executing"
               /\ st.currentTaskId = execs[e].task
               /\ st.executionHandle = e
               /\ st.expiresAt = now + executionTimeout]_vars

\* a call of executeTask on the task is in its drain loop or before it
BeingExecuted(id) == \E e \in ExecIds : execs[e].task = id /\ Executing(execs[e])

\* C27: the stop command of user U cancels (removes from the list) exactly the
\* tasks of U that wait in U's selected workspace; the status of a task that
\* is running or being executed, of a task of another user and of a task in
\* another workspace is not changed.
C27_StopCancelsOwnWaitingOnly ==
  [][\A u \in Users :
       CommandArrives(u, "stop", "", FALSE)
         => \A p \in Projects : \A i \in 1..Len(queues[p]) :
              LET t == queues[p][i]
              IN IF /\ t.userId = u
                    /\ p = getUserProject(userProjectSelections, u)
                    /\ t.status = "waiting"
                    /\ ~BeingExecuted(t.id)
                   THEN StatusOf(queues', t.id) = "none"
                   ELSE StatusOf(queues', t.id) = t.status]_vars

\* C29: a /reset of user U deletes U's session, and the next new task of U
\* (the first one to arrive after the reset) is started without a resume
\* conversation id, whatever executions of U are in flight when the reset
\* arrives.
C29_ResetStartsFreshConversation ==
  /\ [][\A u \in Users : ResetArrives(u) => u \notin DOMAIN sessions']_vars
  /\ [][\A e \in ExecIds :
          (/\ ExecStart(e)
           /\ resetAt[execs[e].user] # NoTask
           /\ execs[e].task = resetAt[execs[e].user])
            => execs'[e].sid = ""]_vars

\* C23: during a task execution any two consecutive progress updates sent to
\* the channel, immediately or by the trailing timer, are at least
\* minUpdateInterval apart.
C23_UpdatesThrottled ==
  [][(card'.sent # card.sent /\ card.sentAt # NoTime)
       => card'.sentAt - card.sentAt >= minUpdateInterval]_vars

\* C24: when the drain loop ends (result or error) while a throttled progress
\* update is pending, the timer is cancelled and the pending payload is sent
\* before the final card; and no progress update is sent once an execution
\* has left its drain loop.
C24_PendingUpdateFlushed ==
  /\ [][\A e \in ExecIds :
          (/\ AgentResult(e, "c1", "success") \/ AgentError(e)
           /\ card.pendingUpdate # NoTimer
           /\ card.pendingCardContent)
            => /\ card'.pendingUpdate = NoTimer
               /\ ~card'.pendingCardContent
               /\ card'.sent = card.sent + 1]_vars
  /\ [][card'.sent # card.sent
          => \E e \in ExecIds : execs[e].pc \in {"drain", "upd", "input_card"}]_vars

\* C28: a rate-limit rejection of a card update leaves the execution in its
\* drain loop and the Task Queue as it was; any other transport error of a
\* card update of the drain loop, of a final card or of a flush by the
\* trailing timer makes the task of the execution failed and takes the
\* execution to its error card, after which the queue advances.
C28_TransportErrors ==
  /\ [][\A e \in ExecIds :
          CardUpdateReturns(e, "rate_limited")
            => execs'[e].pc = "drain" /\ queues' = queues]_vars
  /\ [][\A e \in ExecIds :
          (CardUpdateReturns(e, "error") \/ FinalCardFails(e))
            => /\ StatusOf(queues', execs[e].task) = "failed"
               /\ execs'[e].pc = "err_card"]_vars
  /\ [][FlushReturns("error")
          => \A e \in ExecIds :
               execs[e].pc \in {"drain", "upd"}
                 => /\ StatusOf(queues', execs[e].task) = "failed"
                    /\ execs'[e].pc = "err_card"]_vars

(***************************************************************************)
(* Properties of the AsyncQueue.                                           *)
(***************************************************************************)
\* what the consumer received, followed by what is buffered, is the items
\* enqueued before finish(), in enqueue order and each once; the iteration
\* has ended only when finished and with all of them received; a consumer
\* is not left suspended when there is an item or the queue is finished
AsyncQueueInv ==
  /\ consumer.received \o inputQueue.queue = producer.before
  /\ consumer.pc = "done"
       => inputQueue.finished /\ consumer.received = producer.before
  /\ consumer.pc = "suspended"
       => inputQueue.resolve /\ inputQueue.queue = <<>> /\ ~inputQueue.finished

\* C20: for any interleaving of enqueue, finish and pulls of the single
\* consumer, the consumer receives exactly the items enqueued before
\* finish(), each once and in enqueue order, and once the queue is finished
\* the iteration ends, with all of them received.
C20_SuspendingQueue ==
  /\ []AsyncQueueInv
  /\ inputQueue.finished ~> consumer.pc = "done"

\* the consumer received the two items enqueued before finish() and the
\* iteration ended; the item enqueued after finish() was dropped
C20_Witness ==
  /\ consumer.pc = "done"
  /\ consumer.received = <<1, 2>>
  /\ producer.calls = 3

\* C21: a second and later call of finish() leaves the queue and its consumer
\* unchanged, an item enqueued after finish() (by enqueue, which is what
\* sendAnswer of the handle calls) is dropped without effect, and the items
\* buffered before finish() are all delivered before the iteration ends.
C21_FinishIdempotent ==
  /\ [][(inputQueue.finished /\ (AQFinish \/ AQEnqueue))
          => /\ inputQueue' = inputQueue
             /\ consumer' = consumer
             /\ producer'.before = producer.before]_vars
  /\ [](consumer.pc = "done"
          => inputQueue.queue = <<>> /\ consumer.received = producer.before)

\* finish() was called twice with two items buffered, an item enqueued later
\* was dropped, and the iteration ended with both buffered items delivered
C21_Witness ==
  /\ producer.finishes = 2
  /\ producer.calls = 3
  /\ producer.before = <<1, 2>>
  /\ consumer.received = <<1, 2>>
  /\ consumer.pc = "done"

\* C22: no wake-up is lost: when the consumer is parked (queue empty, not
\* finished) and enqueue or finish is called, the consumer is woken by that
\* call and its resolver is dropped, so that no later call wakes it again; a
\* woken consumer runs on, and every buffered item is eventually yielded and
\* a finished queue eventually ends the iteration.
C22_NoLostWakeup ==
  /\ [][(consumer.pc = "suspended" /\ (AQEnqueue \/ AQFinish))
          => consumer'.pc = "woken" /\ ~inputQueue'.resolve]_vars
  /\ [][(consumer.pc = "woken" /\ (AQEnqueue \/ AQFinish))
          => consumer' = consumer]_vars
  /\ [](consumer.pc = "suspended" <=> inputQueue.resolve)
  /\ \A item \in 1..MaxItems :
        (\E i \in 1..Len(inputQueue.queue) : inputQueue.queue[i] = item)
          ~> (\E i \in 1..Len(consumer.received) : consumer.received[i] = item)
  /\ inputQueue.finished ~> consumer.pc = "done"

\* the parked consumer was woken by an enqueue and, before its continuation
\* ran, a second item was enqueued and finish was called
C22_Witness ==
  /\ consumer.pc = "woken"
  /\ consumer.received = <<>>
  /\ inputQueue.queue = <<1, 2>>
  /\ inputQueue.finished

(***************************************************************************)
(* Properties of the SessionManager.                                       *)
(***************************************************************************)
\* C19: getOrCreateSession(agent, user, workspace, conv): if the user has no
\* session or one of a different workspace, the stored session afterwards is
\* a fresh one (no interactive state) with that workspace and conversation id
\* conv; otherwise the session is kept and only lastActiveAt is refreshed; no
\* session of another user is created, removed or changed, so there is one
\* session per user.
C19_GetOrCreateSession ==
  [][\A u \in Users, p \in Projects, c \in ConvIds :
       SMGetOrCreateSession(u, p, c)
         => /\ DOMAIN sessions' = DOMAIN sessions \cup {u}
            /\ \A v \in DOMAIN sessions \ {u} : sessions'[v] = sessions[v]
            /\ sessions'[u].projectId = p
            /\ sessions'[u].lastActiveAt = now
            /\ IF u \in DOMAIN sessions /\ sessions[u].projectId = p
                 THEN /\ sessions'[u].claudeSessionId = sessions[u].claudeSessionId
                      /\ sessions'[u].state = sessions[u].state
                 ELSE /\ sessions'[u].claudeSessionId = c
                      /\ sessions'[u].state = NoState]_vars

\* one user's session was replaced by a fresh one of the other workspace after
\* time had passed, the other user's executing session was kept and refreshed
C19_Witness ==
  /\ DOMAIN sessions = Users
  /\ sessions["u1"].projectId = "p2" /\ sessions["u1"].claudeSessionId = "c2"
  /\ sessions["u1"].lastActiveAt = 16 /\ sessions["u1"].state = NoState
  /\ sessions["u2"].state.status = "executing"
  /\ sessions["u2"].state.expiresAt = executionTimeout
  /\ sessions["u2"].lastActiveAt = 32

\* C30: the timeout sweep changes interactive state only: it changes no task
\* and no running marker of the Task Queue, deletes no session, changes no
\* other field of a session, and leaves unchanged every session whose
\* interactive state is absent, idle, has no deadline or has not yet expired.
C30_SweepFrame ==
  [][\A thrown \in SUBSET (1..MaxHandles) :
       TimeoutSweep(thrown)
         => /\ queues' = queues
            /\ runningTasks' = runningTasks
            /\ DOMAIN sessions' = DOMAIN sessions
            /\ \A u \in DOMAIN sessions :
                 LET st == sessions[u].state
                 IN /\ [sessions'[u] EXCEPT !.state = st] = sessions[u]
                    /\ (\/ st.status \in {"none", "idle"}
                        \/ st.expiresAt = 0
                        \/ now <= st.expiresAt)
                         => sessions'[u] = sessions[u]]_vars

\* a sweep has cleared the expired waiting state of u1 and finished its
\* handle, while a task is running, another one waits and the state of u2,
\* not yet expired, is still executing
C30_Witness ==
  /\ Users \subseteq DOMAIN sessions
  /\ sessions["u1"].state = NoState
  /\ execs[1].finishCalled
  /\ sessions["u2"].state.status = "executing"
  /\ runningTasks[currentProjectId] # NoTask
  /\ \E i \in 1..Len(queues[currentProjectId]) :
        queues[currentProjectId][i].status = "waiting"

\* C11 (Scenario C): each time the timeout sweep runs, for every session whose
\* interactive state is non-idle and whose expiresAt is in the past, finish()
\* is invoked on the stored handle and the state is absent afterwards, also
\* when finish() throws on some of the handles (checked under SpecSweep).
C11_ScenarioC ==
  [][\A thrown \in SUBSET (1..MaxHandles) :
       TimeoutSweep(thrown) =>
         \A u \in DOMAIN sessions :
           LET st == sessions[u].state
           IN (st.status \notin {"none", "idle"} /\ st.expiresAt < now)
                => /\ getState(sessions', u) = NoState
                   /\ st.executionHandle # NoHandle
                        => execs'[st.executionHandle].finishCalled]_vars

\* the sweep has cleared the timed-out states of both users, although finish()
\* threw on the handle of the first one
C11_Witness ==
  /\ execs[1].finishCalled /\ ~execs[1].finished
  /\ execs[MaxHandles].finished
  /\ \A u \in Users : u \in DOMAIN sessions /\ sessions[u].state = NoState

(***************************************************************************)
(* TaskQueue.complete with time passing: retention of terminal tasks.      *)
(***************************************************************************)
\* time advances between two calls of the Task Queue
TimePasses(d) ==
  /\ now + d <= MaxRetentionTime
  /\ Tick(d)

NextRetention ==
  \/ \E u \in QueueUsers : TQEnqueue(currentProjectId, u)
  \/ TQGetNext(currentProjectId)
  \/ \E id \in 1..MaxTasks : TQComplete(id)
  \/ \E id \in 1..MaxTasks : TQFail(id)
  \/ \E id \in 1..MaxTasks : TQCancel(id)
  \/ \E d \in RetentionSteps : TimePasses(d)

SpecRetention == Init /\ [][NextRetention]_vars

\* the task of list q is terminal and older than the retention window at time
OutOfWindow(t, time) ==
  /\ t.status \in {"completed", "failed"}
  /\ time - t.completedAt > completedThreshold

\* C31: after complete(taskId) on a key that holds the task, the list of the key
\* holds no cancelled task and no completed or failed task older than the
\* retention window; every other task, terminal ones inside the window
\* included, is retained unchanged in its original order (the completed task
\* itself with status completed and the current time); the running marker of
\* the key is cleared; the waiting positions are 0,1,... in list order.
C31_CompletePrunes ==
  [][\A id \in 1..MaxTasks :
       (TQComplete(id) /\ KeyOf(queues, id) # "") =>
         LET k == KeyOf(queues, id)
             q == queues[k]
             q2 == queues'[k]
             Kept(t) == t.id = id \/ (t.status # "cancelled" /\ ~OutOfWindow(t, now))
         IN /\ \A i \in 1..Len(q2) :
                 /\ q2[i].status # "cancelled"
                 /\ ~OutOfWindow(q2[i], now)
            /\ Ids(q2) = Ids(SelectSeq(q, Kept))
            /\ \A i \in 1..Len(q2) :
                 LET t == q[IndexOfId(q, q2[i].id)]
                 IN IF t.id = id
                      THEN q2[i] = [t EXCEPT !.status = "completed",
                                             !.completedAt = now]
                      ELSE [q2[i] EXCEPT !.position = t.position] = t
            /\ \A i \in 1..Len(q2) :
                 q2[i].status = "waiting" =>
                   q2[i].position = WaitingBefore(q2, i - 1)
            /\ runningTasks'[k] = NoTask
            /\ \A k2 \in Projects \ {k} :
                 queues'[k2] = queues[k2] /\ runningTasks'[k2] = runningTasks[k2]
    ]_vars

\* a complete call has just pruned a terminal task that left the window while
\* keeping one whose age is exactly the window, next to a waiting task
C31_Witness ==
  /\ ret.op = "complete" /\ ret.key = currentProjectId
  /\ nextId = MaxTasks + 1
  /\ Len(queues[currentProjectId]) = 2
  /\ \E i \in 1..2 :
       /\ queues[currentProjectId][i].status \in {"completed", "failed"}
       /\ now - queues[currentProjectId][i].completedAt = completedThreshold
  /\ \E i \in 1..2 : queues[currentProjectId][i].id = ret.id
                        /\ queues[currentProjectId][i].completedAt = now

(***************************************************************************)
(* The tool calls of the card.                                             *)
(***************************************************************************)
\* the bridge with the executions of a user who sends a task only when no
\* task is executing, and an agent that uses tools
NextTools ==
  \/ \E u \in QueueUsers : Quiet /\ nextId <= MaxToolMsgs /\ TaskArrives(u)
  \/ \E e \in ExecIds : ExecStart(e)
  \/ \E e \in ExecIds, name \in ToolNames : AgentToolUse(e, name)
  \/ \E e \in ExecIds : AgentToolResult(e)
  \/ \E e \in ExecIds, outcome \in Outcomes : CardUpdateReturns(e, outcome)
  \/ \E e \in ExecIds, inputType \in InputTypes : AgentInput(e, inputType)
  \/ \E e \in ExecIds : AfterInputCard(e)
  \/ \E e \in ExecIds : AgentResult(e, "c1", "success")
  \/ \E e \in ExecIds : AgentError(e)
  \/ \E e \in ExecIds : FinalCardSent(e)
  \/ \E e \in ExecIds : FinalCardFails(e)
  \/ \E e \in ExecIds : ErrorCardSent(e)
  \/ \E e \in ExecIds : ProcessNextTask(e)

SpecTools == Init /\ [][NextTools]_vars

\* the tool calls of the card that are running
RunningTools == {i \in 1..Len(card.toolCalls) : card.toolCalls[i].status = "running"}

\* the execution is in the completion step: after the loops that mark the
\* tool calls done, up to the pull of the next task
Finalizing(x) == x.pc \in {"hec_card", "hec_sleep", "fin_card", "fin_sleep"}

\* C32: every tool-invocation event appends one entry with status running and
\* leaves the others alone; every tool-result event marks exactly the most
\* recently added entry that is still running as done and changes nothing if
\* none is running; while a task is being finalized no entry is running.
C32_ToolLedger ==
  /\ [][\A e \in ExecIds, name \in ToolNames : AgentToolUse(e, name) =>
          card'.toolCalls = card.toolCalls \o <<[name |-> name, status |-> "running"]>>
      ]_vars
  /\ [][\A e \in ExecIds : AgentToolResult(e) =>
          IF RunningTools = {} THEN card'.toolCalls = card.toolCalls
          ELSE LET i == CHOOSE j \in RunningTools : \A l \in RunningTools : l <= j
               IN /\ Len(card'.toolCalls) = Len(card.toolCalls)
                  /\ card'.toolCalls[i] = [card.toolCalls[i] EXCEPT !.status = "done"]
                  /\ \A j \in 1..Len(card.toolCalls) :
                       j # i => card'.toolCalls[j] = card.toolCalls[j]
      ]_vars
  /\ [](\A e \in ExecIds : Finalizing(execs[e]) => RunningTools = {})

\* two calls of the same tool were recorded, one tool result arrived, and the
\* task is being finalized with both entries done
C32_Witness ==
  /\ Len(card.toolCalls) = 2
  /\ card.toolCalls[1].name = card.toolCalls[2].name
  /\ RunningTools = {}
  /\ card.updates = MaxUpdates
  /\ \E e \in ExecIds : Finalizing(execs[e])

\* C33: every task is executed at most once: for no task id both the call of
\* executeTask made on arrival and the one made for a task returned by getNext
\* are started.
C33_ExecutedAtMostOnce ==
  \A t \in 1..MaxMsgs :
    ~(execs[DirectExec(t)].pc # "none" /\ execs[QueuedExec(t)].pc # "none")

\* C34: for every key, isRunning is true if and only if some task of the list
\* has status running, and getRunningTask is then that task, the only one.
C34_MarkerAgreesWithStatuses ==
  \A k \in Projects :
    /\ isRunning(runningTasks, k) <=> HasRunning(queues[k])
    /\ isRunning(runningTasks, k) =>
         \A i \in 1..Len(queues[k]) :
           queues[k][i].status = "running" <=> queues[k][i].id = runningTasks[k]

\* C35: for each task whose conversation finishes normally the finalization
\* happens once: no second final card is sent for a task whose stream ended
\* with a success result and was not paused for input.
C35_FinalizedOnce ==
  \A e \in ExecIds :
    (execs[e].result = "success" /\ ~execs[e].paused) =>
      finalCards[execs[e].task] <= 1

\* C36: the status of a task only moves waiting -> running -> completed or
\* failed, or waiting -> cancelled (a cancelled task leaves its list): no task
\* becomes completed or failed without having been running, and a completed
\* or failed task never changes its status again.
C36_StatusMoves ==
  [][\A id \in 1..MaxMsgs :
       LET old == StatusOf(queues, id)
           new == StatusOf(queues', id)
       IN (old # new /\ old # "none" /\ new # "none") =>
            <<old, new>> \in {<<"waiting", "running">>, <<"running", "completed">>,
                              <<"running", "failed">>, <<"waiting", "cancelled">>}
    ]_vars

(***************************************************************************)
(* Progress of the queue: every call of executeTask goes on to its end.    *)
(***************************************************************************)
\* the call of executeTask whose catch block receives what executeTask(e)
\* throws out of its own catch block: the nearest caller that awaits inside
\* its try block, 0 if there is none
RECURSIVE Catcher(_, _)
Catcher(ex, e) ==
  LET callers == {c \in ExecIds : ex[c].child = e
                                   /\ ex[c].pc \in {"hec_wait", "fin_wait", "err_wait"}}
  IN IF callers = {} THEN 0
     ELSE LET c == CHOOSE x \in callers : TRUE
          IN IF ex[c].pc = "err_wait" THEN Catcher(ex, c) ELSE c

\* executeTask(e) and the callers that await it inside handleExecutionError
\* end with the exception
RECURSIVE Unwound(_, _)
Unwound(ex, e) ==
  LET done == [ex EXCEPT ![e].pc = "done"]
      callers == {c \in ExecIds : ex[c].child = e
                                   /\ ex[c].pc \in {"hec_wait", "fin_wait", "err_wait"}}
  IN IF callers = {} THEN done
     ELSE LET c == CHOOSE x \in callers : TRUE
          IN IF ex[c].pc = "err_wait"
               THEN Unwound([done EXCEPT ![c].child = 0], c)
               ELSE [done EXCEPT ![c].child = 0]

\* the channel call of the error card throws: handleExecutionError and
\* executeTask end with the exception, without processNextTask; a caller that
\* awaits inside its try block runs its own catch block
ErrorCardFails(e) ==
  LET x == execs[e]
      c == Catcher(execs, e)
      u == Unwound(execs, e)
  IN /\ x.pc = "err_card"
     /\ IF c = 0
          THEN /\ execs' = u
               /\ card' = finallyReset(card)
               /\ UNCHANGED <<sessions, queues, runningTasks>>
          ELSE /\ execs' = [u EXCEPT ![c].pc = "err_card", ![c].closed = TRUE]
               /\ sessions' = clearState(sessions, execs[c].user)
               /\ queues' = queuesAfterFail(queues, execs[c].task, "error", now)
               /\ runningTasks' = markersAfterEnd(runningTasks, queues, execs[c].task)
               /\ card' = cancelPending(finallyReset(card))
     /\ UNCHANGED <<aqVars, resetAt, clock, nextId, now, ret, userProjectSelections,
                    finalCards, errorCards, notices, replies, everRunning>>

\* the steps of the calls of executeTask whose streams end with a result
\* message or throw
ProgressStep ==
  \/ \E e \in ExecIds : ExecStart(e)
  \/ \E e \in ExecIds : AgentResult(e, "", "success")
  \/ \E e \in ExecIds : AgentError(e)
  \/ \E e \in ExecIds : FinalCardSent(e)
  \/ \E e \in ExecIds : ErrorCardSent(e)
  \/ \E e \in ExecIds : ProcessNextTask(e)

\* the bridge with a user who sends tasks for the default project,
\* and a channel that may throw when an error card is sent; every step of a
\* call of executeTask that can be taken is taken
NextProgress ==
  \/ \E u \in QueueUsers : nextId <= MaxProgressMsgs /\ TaskArrives(u)
  \/ \E e \in ExecIds : ErrorCardFails(e)
  \/ ProgressStep

SpecProgress == Init /\ [][NextProgress]_vars /\ WF_vars(ProgressStep)

\* C37: every task enqueued as waiting behind a running task is eventually
\* started, and every waiting task eventually is completed or failed, unless
\* it is cancelled (and leaves its list) first.
C37_QueueProgress ==
  \A t \in 1..MaxProgressMsgs :
    /\ (t \in notices) ~>
         (execs[QueuedExec(t)].pc # "none" \/ StatusOf(queues, t) = "none")
    /\ (StatusOf(queues, t) = "waiting") ~>
         (StatusOf(queues, t) \in {"completed", "failed", "none"})

(***************************************************************************)
(* Executions of two workspaces at the same time.                          *)
(***************************************************************************)
\* no call of executeTask for the workspace of the user is in flight
WorkspaceQuiet(u) ==
  \A e \in ExecIds :
    execs[e].pc \notin {"none", "done"} =>
      execs[e].project # getUserProject(userProjectSelections, u)

\* the bridge with two users who switch workspaces and send a task only when
\* nothing executes in their workspace, and an agent that uses tools
NextOverlap ==
  \/ \E u \in Users : WorkspaceQuiet(u) /\ nextId <= MaxToolMsgs /\ TaskArrives(u)
  \/ \E u \in Users, arg \in Projects : Quiet /\ CommandArrives(u, "switch", arg, FALSE)
  \/ \E e \in ExecIds : ExecStart(e)
  \/ \E e \in ExecIds, name \in ToolNames : AgentToolUse(e, name)
  \/ \E e \in ExecIds : AgentToolResult(e)
  \/ \E e \in ExecIds : CardUpdateReturns(e, "ok")
  \/ \E e \in ExecIds : AgentResult(e, "", "success")
  \/ \E e \in ExecIds : FinalCardSent(e)
  \/ \E e \in ExecIds : ProcessNextTask(e)

SpecOverlap == Init /\ [][NextOverlap]_vars

\* C38: executions that overlap do not interfere: while an execution is in
\* its drain loop, the start of another execution leaves the tool calls and
\* the pending update of the card as they are.
C38_OverlapNoInterference ==
  [][\A u \in Users :
       (TaskArrives(u) /\ \E e \in ExecIds : Executing(execs[e])) =>
         /\ card'.toolCalls = card.toolCalls
         /\ card'.pendingUpdate = card.pendingUpdate
         /\ card'.pendingCardContent = card.pendingCardContent
    ]_vars

(***************************************************************************)
(* Messages that arrive while the conversation of the user executes.       *)
(***************************************************************************)
\* the bridge with a user who waits for the end of the first task, whose
\* result stores a session, and then sends tasks at any time
NextExecuting ==
  \/ \E u \in QueueUsers :
       /\ nextId <= MaxSeqMsgs
       /\ nextId = 1 \/ execs[DirectExec(1)].pc = "done"
       /\ TaskArrives(u)
  \/ \E e \in ExecIds : ExecStart(e)
  \/ \E e \in ExecIds : AgentResult(e, "c1", "success")
  \/ \E e \in ExecIds : FinalCardSent(e)
  \/ \E e \in ExecIds : ProcessNextTask(e)

SpecExecuting == Init /\ [][NextExecuting]_vars

C40_NoHandleOrphaned ==
  [][\A u \in Users :
       LET h == getState(sessions, u).executionHandle
       IN (/\ h # NoHandle
           /\ getState(sessions', u).executionHandle # h
           /\ Executing(execs'[h])) => execs'[h].finishCalled
    ]_vars

====
